---- MODULE Spec2Model ----
(***************************************************************************)
(* CompositeFS (goliatone/go-composite-fs): an ordered list of fs.FS       *)
(* layers presented as one read-only filesystem.                           *)
(*                                                                         *)
(* A composite is its layer list plus the two policy flags.  The layers    *)
(* are external providers: what a provider answers to Open, Stat,          *)
(* ReadFile, ReadDir and Sub at the requested (already cleaned) name is an *)
(* input of each call, drawn from bounded sets.  One action models one     *)
(* whole method call and records its inputs and its result in `call`.      *)
(* Layer k of the model (1-based) is index k-1 of cfs.filesystems.         *)
(*                                                                         *)
(* DirSpec follows the overlayDirFile handles that Open returned for one   *)
(* path of an overlay composite through their ReadDir(n) calls.            *)
(* ConcSpec runs several calls on one composite at the same time, over     *)
(* providers that do not change (`world`).                                 *)
(***************************************************************************)
EXTENDS Integers, Sequences, FiniteSets, TLC

VARIABLES composites, call, handles, reads, world, procs

vars == <<composites, call, handles, reads, world, procs>>

\* ------------------------------------------------------------------ bounds
MaxLayers == 2
MaxComposites == 3
MaxData == 2
MaxNames == 2
MaxHandles == 2
MaxCount == 2
IntBits == 4
MaxProcs == 2

\* ---------------------------------------------------------------- providers
\* Outcome of one call on a provider or on a file handle: nil, an error for
\* which errors.Is(err, fs.ErrNotExist) holds, or any other error.
Outcome == {"ok", "notexist", "generic"}

Failure == {"notexist", "generic"}

Data == 1..MaxData

Names == 1..MaxNames

\* The slices a provider's directory read can return: names, none repeated.
Listings ==
    {s \in UNION {[1..n -> Names] : n \in 0..MaxNames} :
        \A i, j \in 1..Len(s) : i # j => s[i] # s[j]}

\* A provider that implements only Open and has nothing at the name.  The
\* fields are what each call on it, or on the handle it opens, returns:
\*   open            fsys.Open(name): "file"/"dir" is a handle of that kind
\*   fstat           file.Stat() on the opened handle
\*   readAll         io.ReadAll(file) on the opened handle
\*   isReadDirFile   the opened handle implements fs.ReadDirFile
\*   fileReadDir     dirFile.ReadDir(-1) on the opened handle
\*   hasStat, stat           fs.StatFS and statFS.Stat(name)
\*   hasReadFile, readFile   ReadFile(name)
\*   hasReadDir, readDir     fs.ReadDirFS and rdfs.ReadDir(name)
\*   hasSub, sub             Sub(dir)
\*   data            the content and metadata of the file at the name
\*   entries         the names a successful directory read lists
BareFS ==
    [open |-> "notexist", fstat |-> "ok", readAll |-> "ok",
     isReadDirFile |-> FALSE, fileReadDir |-> "ok",
     hasStat |-> FALSE, stat |-> "notexist",
     hasReadFile |-> FALSE, readFile |-> "notexist",
     hasReadDir |-> FALSE, readDir |-> "notexist",
     hasSub |-> FALSE, sub |-> "notexist",
     data |-> 1, entries |-> <<>>]

Opened == {"file", "dir"}

\* Each method reads only some of a provider's fields; the sets below vary
\* exactly the fields the method reads and leave the others as in BareFS.

\* Providers as Open sees them without directory merging: fsys.Open only.
OpenFS ==
    {[BareFS EXCEPT !.open = o] : o \in Failure \cup {"dir"}}
    \cup {[BareFS EXCEPT !.open = "file", !.data = d] : d \in Data}

\* Providers as the helper ReadDir(fsys, name) sees them: the native
\* ReadDir, or Open and the handle's ReadDir(-1).
ListFS ==
    {[BareFS EXCEPT !.hasReadDir = TRUE, !.readDir = "ok", !.entries = l] :
        l \in Listings}
    \cup {[BareFS EXCEPT !.hasReadDir = TRUE, !.readDir = f] : f \in Failure}
    \cup {[BareFS EXCEPT !.open = f] : f \in Failure}
    \cup {[BareFS EXCEPT !.open = "dir"]}
    \cup {[BareFS EXCEPT !.open = "dir", !.isReadDirFile = TRUE,
                         !.fileReadDir = "ok", !.entries = l] : l \in Listings}
    \cup {[BareFS EXCEPT !.open = "dir", !.isReadDirFile = TRUE,
                         !.fileReadDir = f] : f \in Failure}

\* Providers as Open sees them with directory merging: fsys.Open, file.Stat
\* and, for a directory, the helper ReadDir.
OverlayFS ==
    {[BareFS EXCEPT !.open = f] : f \in Failure}
    \cup {[BareFS EXCEPT !.open = k, !.fstat = f] : k \in Opened, f \in Failure}
    \cup {[BareFS EXCEPT !.open = "file", !.data = d] : d \in Data}
    \cup {[p EXCEPT !.open = "dir"] : p \in {q \in ListFS : q.open \in Opened}}
    \cup {[p EXCEPT !.open = "dir"] : p \in {q \in ListFS : q.hasReadDir}}

\* Providers as Stat sees them: the native Stat, or Open and file.Stat.
StatFS ==
    {[BareFS EXCEPT !.hasStat = TRUE, !.stat = "ok", !.data = d] : d \in Data}
    \cup {[BareFS EXCEPT !.hasStat = TRUE, !.stat = f] : f \in Failure}
    \cup {[BareFS EXCEPT !.open = f] : f \in Failure}
    \cup {[BareFS EXCEPT !.open = "file", !.data = d] : d \in Data}
    \cup {[BareFS EXCEPT !.open = "file", !.fstat = f] : f \in Failure}

\* Providers as ReadFile sees them: the native ReadFile, or Open and
\* io.ReadAll.
ReadFileFS ==
    {[BareFS EXCEPT !.hasReadFile = TRUE, !.readFile = "ok", !.data = d] :
        d \in Data}
    \cup {[BareFS EXCEPT !.hasReadFile = TRUE, !.readFile = f] : f \in Failure}
    \cup {[BareFS EXCEPT !.open = f] : f \in Failure}
    \cup {[BareFS EXCEPT !.open = "file", !.data = d] : d \in Data}
    \cup {[BareFS EXCEPT !.open = "file", !.readAll = f] : f \in Failure}

\* Providers as Sub sees them: no Sub method, or what Sub(dir) returns.  Sub
\* never opens the directory; `open` says whether the layer holds it.
SubFS ==
    {[p EXCEPT !.open = o] :
        p \in {BareFS} \cup {[BareFS EXCEPT !.hasSub = TRUE, !.sub = r] :
                                r \in Outcome},
        o \in {"notexist", "dir"}}

\* ---------------------------------------------------------------- composite
\* The k-th filesystem handed to the constructor, re-rooted `root` times.
FsId(k, d) == [id |-> k, root |-> d]

\* newCompositeFS: the list is copied, the flags stored.
newCompositeFS(bestEffort, mergeDirs, filesystems) ==
    [filesystems |-> filesystems, bestEffort |-> bestEffort,
     mergeDirs |-> mergeDirs]

RootList(n) == [k \in 1..n |-> FsId(k, 0)]

NewCompositeFS(n) == newCompositeFS(FALSE, FALSE, RootList(n))

NewCompositeFSBestEffort(n) == newCompositeFS(TRUE, FALSE, RootList(n))

NewOverlayFS(n) == newCompositeFS(FALSE, TRUE, RootList(n))

\* ------------------------------------------------------------------- errors
\* fmt.Errorf("filesystem %d: %w", i, err)
Wrapped(i, class) == [layer |-> i, class |-> class]

NoError == [isNil |-> TRUE, notExist |-> FALSE, causes |-> <<>>]

\* Faulty variant of notFoundError: errors.New whatever allNotExist says.
notFoundErrorPlain(errs, allNotExist) ==
    [isNil |-> FALSE, notExist |-> FALSE, causes |-> errs]

\* notFoundError: wraps fs.ErrNotExist iff allNotExist; the message joins errs.
notFoundError(errs, allNotExist) ==
    [isNil |-> FALSE, notExist |-> allNotExist, causes |-> errs]

\* `return nil, wrapped`: the layer's own error, which is not fs.ErrNotExist.
WrappedError(i, class) ==
    [isNil |-> FALSE, notExist |-> (class = "notexist"),
     causes |-> <<Wrapped(i, class)>>]

\* Faulty variant of IsNotExist: `err != nil` in place of the errors.Is test.
IsNotExistAny(class) == TRUE

\* errors.Is(err, fs.ErrNotExist) on a layer's error
IsNotExist(class) == class = "notexist"

\* Faulty variants of ShortCircuit: the flag ignored either way.
ShortCircuitNever(cfs) == FALSE

ShortCircuitAlways(cfs) == TRUE

\* `if !cfs.bestEffort { return nil, wrapped }`
ShortCircuit(cfs) == ~cfs.bestEffort

\* ------------------------------------------------------------------ results
\* What a method returns, together with the calls it made on the layers, in
\* the order it made them.
\*   kind     "file"/"dir": a layer's own handle; "overlay": an
\*            overlayDirFile; "info", "bytes", "entries", "fs": the values
\*            of Stat, ReadFile, ReadDir and Sub
\*   layer    the layer whose value is returned (0: none)
\*   entries  the entry slice of an overlayDirFile
\*   listing  the entries ReadDir returns, in no particular order (they are
\*            collected by ranging over a map)
\*   sub      the composite Sub returns
NoValue == [kind |-> "none", layer |-> 0, data |-> 0, entries |-> <<>>,
            listing |-> {}, sub |-> <<>>]

Return(value, err, calls) == [value |-> value, err |-> err, calls |-> calls]

Fail(err, calls) == Return(NoValue, err, calls)

\* One call on layer i.
On(i, method) == [layer |-> i, method |-> method]

\* The fs.File that layer i opened.
Handle(i, fsys) ==
    [NoValue EXCEPT !.kind = fsys.open, !.layer = i,
                    !.data = IF fsys.open = "file" THEN fsys.data ELSE 0]

\* The fs.FileInfo or the bytes of layer i.
Content(kind, i, fsys) ==
    [NoValue EXCEPT !.kind = kind, !.layer = i, !.data = fsys.data]

\* An fs.DirEntry of layer i.
Entry(i, name) == [name |-> name, layer |-> i]

\* --------------------------------------------------------------------- Open
\* Faulty variant of OpenFrom: a layer that fails with another error than
\* not-found is opened a second time.
RECURSIVE OpenWithRetry(_, _, _, _, _, _)
OpenWithRetry(cfs, fs, i, errs, allNotExist, calls) ==
    IF i > Len(fs)
    THEN Fail(notFoundError(errs, allNotExist), calls)
    ELSE LET err == fs[i].open
             once == Append(calls, On(i, "Open"))
             made == IF err = "generic" THEN Append(once, On(i, "Open"))
                     ELSE once
         IN  IF err \in Opened
             THEN Return(Handle(i, fs[i]), NoError, made)
             ELSE IF IsNotExist(err)
             THEN OpenWithRetry(cfs, fs, i + 1, Append(errs, Wrapped(i, err)),
                                allNotExist, made)
             ELSE IF ShortCircuit(cfs)
             THEN Fail(WrappedError(i, err), made)
             ELSE OpenWithRetry(cfs, fs, i + 1, Append(errs, Wrapped(i, err)),
                                FALSE, made)

\* Faulty variant of OpenFrom: the loop keeps going and the last layer that opens wins.
OpenLastWins(cfs, fs, i, errs, allNotExist, calls) ==
    LET opens == {k \in i..Len(fs) : fs[k].open \in Opened}
        all == [k \in 1..Len(fs) |-> On(k, "Open")]
    IN  IF opens = {}
        THEN Fail(notFoundError(errs, allNotExist), all)
        ELSE LET last == CHOOSE k \in opens : \A j \in opens : j <= k
             IN  Return(Handle(last, fs[last]), NoError, all)

\* The loop of CompositeFS.Open from layer i on.
RECURSIVE OpenFrom(_, _, _, _, _, _)
OpenFrom(cfs, fs, i, errs, allNotExist, calls) ==
    IF i > Len(fs)
    THEN Fail(notFoundError(errs, allNotExist), calls)
    ELSE LET err == fs[i].open
             made == Append(calls, On(i, "Open"))
         IN  IF err \in Opened
             THEN Return(Handle(i, fs[i]), NoError, made)
             ELSE IF IsNotExist(err)
             THEN OpenFrom(cfs, fs, i + 1, Append(errs, Wrapped(i, err)),
                           allNotExist, made)
             ELSE IF ShortCircuit(cfs)
             THEN Fail(WrappedError(i, err), made)
             ELSE OpenFrom(cfs, fs, i + 1, Append(errs, Wrapped(i, err)),
                           FALSE, made)

\* ------------------------------------------------------- the helper ReadDir
\* ReadDir(fsys, name): the error, the entries and the calls made on fsys.
Listed(err, entries, methods) ==
    [err |-> err, entries |-> entries, methods |-> methods]

ReadDirHelper(fsys) ==
    IF fsys.hasReadDir
    THEN Listed(fsys.readDir,
                IF fsys.readDir = "ok" THEN fsys.entries ELSE <<>>,
                <<"ReadDir">>)
    ELSE IF fsys.open \notin Opened
    THEN Listed(fsys.open, <<>>, <<"Open">>)
    ELSE IF fsys.isReadDirFile
    THEN Listed(fsys.fileReadDir,
                IF fsys.fileReadDir = "ok" THEN fsys.entries ELSE <<>>,
                <<"Open">>)
    ELSE Listed("generic", <<>>, <<"Open">>)

CallsOn(i, methods) == [k \in 1..Len(methods) |-> On(i, methods[k])]

\* -------------------------------------------------------------- openOverlay
\* Faulty variant of AppendUnseen: every entry is appended, seen or not.
RECURSIVE AppendAll(_, _, _, _, _)
AppendAll(entries, seen, dirEntries, i, k) ==
    IF k > Len(dirEntries) THEN [entries |-> entries, seen |-> seen]
    ELSE AppendAll(Append(entries, Entry(i, dirEntries[k])),
                   seen \cup {dirEntries[k]}, dirEntries, i, k + 1)

\* `for _, entry := range dirEntries`: append the entries whose name is new.
RECURSIVE AppendUnseen(_, _, _, _, _)
AppendUnseen(entries, seen, dirEntries, i, k) ==
    IF k > Len(dirEntries) THEN [entries |-> entries, seen |-> seen]
    ELSE IF dirEntries[k] \in seen
    THEN AppendUnseen(entries, seen, dirEntries, i, k + 1)
    ELSE AppendUnseen(Append(entries, Entry(i, dirEntries[k])),
                      seen \cup {dirEntries[k]}, dirEntries, i, k + 1)

\* Faulty variant of FileMasked: a file below a directory is returned.
FileNeverMasked(v) == FALSE

\* Faulty variant of FileMasked: the test inverted.
FileMaskedInverted(v) == ~v.foundDir

\* `if foundDir`: a regular file below a directory is skipped.
FileMasked(v) == v.foundDir

\* The locals of openOverlay before the loop (dirInfo 0: nil).
OverlayLocals ==
    [errs |-> <<>>, allNotExist |-> TRUE, foundDir |-> FALSE, dirInfo |-> 0,
     entries |-> <<>>, seen |-> {}, foundAnyDirRead |-> FALSE]

overlayDirFile(v) ==
    [NoValue EXCEPT !.kind = "overlay", !.layer = v.dirInfo,
                    !.entries = v.entries]

\* The loop of openOverlay from layer i on, v its locals.
RECURSIVE OverlayFrom(_, _, _, _, _)
OverlayFrom(cfs, fs, i, v, calls) ==
    IF i > Len(fs)
    THEN IF v.foundAnyDirRead
         THEN Return(overlayDirFile(v), NoError, calls)
         ELSE Fail(notFoundError(v.errs, v.allNotExist), calls)
    ELSE
    LET err == fs[i].open
        made == Append(calls, On(i, "Open"))
        \* the three ways every failed step ends
        Failed(class, after) ==
            IF IsNotExist(class)
            THEN OverlayFrom(cfs, fs, i + 1,
                    [v EXCEPT !.errs = Append(@, Wrapped(i, class))], after)
            ELSE IF ShortCircuit(cfs)
            THEN Fail(WrappedError(i, class), after)
            ELSE OverlayFrom(cfs, fs, i + 1,
                    [v EXCEPT !.errs = Append(@, Wrapped(i, class)),
                              !.allNotExist = FALSE], after)
    IN  IF err \in Opened
        THEN IF fs[i].fstat # "ok"
             THEN Failed(fs[i].fstat, made)
             ELSE IF err = "dir"
             THEN LET d == [v EXCEPT !.foundDir = TRUE,
                                     !.dirInfo = IF @ = 0 THEN i ELSE @]
                      read == ReadDirHelper(fs[i])
                      after == made \o CallsOn(i, read.methods)
                  IN  IF read.err = "ok"
                      THEN LET m == AppendUnseen(d.entries, d.seen,
                                                 read.entries, i, 1)
                           IN  OverlayFrom(cfs, fs, i + 1,
                                  [d EXCEPT !.foundAnyDirRead = TRUE,
                                            !.allNotExist = FALSE,
                                            !.entries = m.entries,
                                            !.seen = m.seen], after)
                      ELSE IF IsNotExist(read.err)
                      THEN OverlayFrom(cfs, fs, i + 1,
                              [d EXCEPT !.errs = Append(@, Wrapped(i, read.err))],
                              after)
                      ELSE IF ShortCircuit(cfs)
                      THEN Fail(WrappedError(i, read.err), after)
                      ELSE OverlayFrom(cfs, fs, i + 1,
                              [d EXCEPT !.errs = Append(@, Wrapped(i, read.err)),
                                        !.allNotExist = FALSE], after)
             ELSE IF FileMasked(v)
             THEN OverlayFrom(cfs, fs, i + 1, [v EXCEPT !.allNotExist = FALSE],
                              made)
             ELSE Return(Handle(i, fs[i]), NoError, made)
        ELSE Failed(err, made)

openOverlay(cfs, fs) == OverlayFrom(cfs, fs, 1, OverlayLocals, <<>>)

\* Faulty variant of CompositeOpen: the merged handle in either mode.
CompositeOpenMerging(cfs, fs) == openOverlay(cfs, fs)

\* CompositeFS.Open
CompositeOpen(cfs, fs) ==
    IF cfs.mergeDirs THEN openOverlay(cfs, fs)
    ELSE OpenFrom(cfs, fs, 1, <<>>, TRUE, <<>>)

\* ------------------------------------------------------------------ ReadDir
\* Faulty variant of PutAbsent: a later entry replaces the one in the map.
RECURSIVE PutOverwrite(_, _, _, _)
PutOverwrite(allEntries, entries, i, k) ==
    IF k > Len(entries) THEN allEntries
    ELSE PutOverwrite({e \in allEntries : e.name # entries[k]}
                          \cup {Entry(i, entries[k])}, entries, i, k + 1)

\* `for _, entry := range entries`: keep the entry already in the map.
RECURSIVE PutAbsent(_, _, _, _)
PutAbsent(allEntries, entries, i, k) ==
    IF k > Len(entries) THEN allEntries
    ELSE IF \E e \in allEntries : e.name = entries[k]
    THEN PutAbsent(allEntries, entries, i, k + 1)
    ELSE PutAbsent(allEntries \cup {Entry(i, entries[k])}, entries, i, k + 1)

\* The loop of CompositeFS.ReadDir from layer i on.  allEntries, a map from
\* name to entry, is kept as the set of its values.
RECURSIVE ReadDirFrom(_, _, _, _, _, _, _, _)
ReadDirFrom(cfs, fs, i, allEntries, foundAny, errs, allNotExist, calls) ==
    IF i > Len(fs)
    THEN IF ~foundAny
         THEN Fail(notFoundError(errs, allNotExist), calls)
         ELSE Return([NoValue EXCEPT !.kind = "entries",
                                     !.listing = allEntries], NoError, calls)
    ELSE LET read == ReadDirHelper(fs[i])
             made == calls \o CallsOn(i, read.methods)
         IN  IF read.err = "ok"
             THEN ReadDirFrom(cfs, fs, i + 1,
                              PutAbsent(allEntries, read.entries, i, 1),
                              TRUE, errs, FALSE, made)
             ELSE IF IsNotExist(read.err)
             THEN ReadDirFrom(cfs, fs, i + 1, allEntries, foundAny,
                              Append(errs, Wrapped(i, read.err)),
                              allNotExist, made)
             ELSE IF ShortCircuit(cfs)
             THEN Fail(WrappedError(i, read.err), made)
             ELSE ReadDirFrom(cfs, fs, i + 1, allEntries, foundAny,
                              Append(errs, Wrapped(i, read.err)), FALSE, made)

CompositeReadDir(cfs, fs) ==
    ReadDirFrom(cfs, fs, 1, {}, FALSE, <<>>, TRUE, <<>>)

\* --------------------------------------------------------------------- Stat
\* The loop of CompositeFS.Stat from layer i on.
RECURSIVE StatFrom(_, _, _, _, _, _)
StatFrom(cfs, fs, i, errs, allNotExist, calls) ==
    IF i > Len(fs)
    THEN Fail(notFoundError(errs, allNotExist), calls)
    ELSE
    LET Failed(class, made) ==
            IF IsNotExist(class)
            THEN StatFrom(cfs, fs, i + 1, Append(errs, Wrapped(i, class)),
                          allNotExist, made)
            ELSE IF ShortCircuit(cfs)
            THEN Fail(WrappedError(i, class), made)
            ELSE StatFrom(cfs, fs, i + 1, Append(errs, Wrapped(i, class)),
                          FALSE, made)
    IN  IF fs[i].hasStat
        THEN LET made == Append(calls, On(i, "Stat"))
             IN  IF fs[i].stat = "ok"
                 THEN Return(Content("info", i, fs[i]), NoError, made)
                 ELSE Failed(fs[i].stat, made)
        ELSE LET made == Append(calls, On(i, "Open"))
             IN  IF fs[i].open \in Opened
                 THEN IF fs[i].fstat = "ok"
                      THEN Return(Content("info", i, fs[i]), NoError, made)
                      ELSE Failed(fs[i].fstat, made)
                 ELSE Failed(fs[i].open, made)

\* Faulty variant of CompositeStat: a layer without a Stat method is passed
\* over, the fallback through Open left out.
RECURSIVE StatNativeFrom(_, _, _, _, _, _)
StatNativeFrom(cfs, fs, i, errs, allNotExist, calls) ==
    IF i > Len(fs)
    THEN Fail(notFoundError(errs, allNotExist), calls)
    ELSE IF ~fs[i].hasStat
    THEN StatNativeFrom(cfs, fs, i + 1, errs, allNotExist, calls)
    ELSE LET made == Append(calls, On(i, "Stat"))
         IN  IF fs[i].stat = "ok"
             THEN Return(Content("info", i, fs[i]), NoError, made)
             ELSE IF IsNotExist(fs[i].stat)
             THEN StatNativeFrom(cfs, fs, i + 1,
                                 Append(errs, Wrapped(i, fs[i].stat)),
                                 allNotExist, made)
             ELSE IF ShortCircuit(cfs)
             THEN Fail(WrappedError(i, fs[i].stat), made)
             ELSE StatNativeFrom(cfs, fs, i + 1,
                                 Append(errs, Wrapped(i, fs[i].stat)),
                                 FALSE, made)

CompositeStatNativeOnly(cfs, fs) ==
    StatNativeFrom(cfs, fs, 1, <<>>, TRUE, <<>>)

CompositeStat(cfs, fs) == StatFrom(cfs, fs, 1, <<>>, TRUE, <<>>)

\* ----------------------------------------------------------------- ReadFile
\* The loop of CompositeFS.ReadFile from layer i on.
RECURSIVE ReadFileFrom(_, _, _, _, _, _)
ReadFileFrom(cfs, fs, i, errs, allNotExist, calls) ==
    IF i > Len(fs)
    THEN Fail(notFoundError(errs, allNotExist), calls)
    ELSE
    LET Failed(class, made) ==
            IF IsNotExist(class)
            THEN ReadFileFrom(cfs, fs, i + 1, Append(errs, Wrapped(i, class)),
                              allNotExist, made)
            ELSE IF ShortCircuit(cfs)
            THEN Fail(WrappedError(i, class), made)
            ELSE ReadFileFrom(cfs, fs, i + 1, Append(errs, Wrapped(i, class)),
                              FALSE, made)
    IN  IF fs[i].hasReadFile
        THEN LET made == Append(calls, On(i, "ReadFile"))
             IN  IF fs[i].readFile = "ok"
                 THEN Return(Content("bytes", i, fs[i]), NoError, made)
                 ELSE Failed(fs[i].readFile, made)
        ELSE LET made == Append(calls, On(i, "Open"))
             IN  IF fs[i].open \in Opened
                 THEN IF fs[i].readAll = "ok"
                      THEN Return(Content("bytes", i, fs[i]), NoError, made)
                      ELSE Failed(fs[i].readAll, made)
                 ELSE Failed(fs[i].open, made)

CompositeReadFile(cfs, fs) == ReadFileFrom(cfs, fs, 1, <<>>, TRUE, <<>>)

\* ---------------------------------------------------------------------- Sub
\* Faulty variant of SubOf: the layer itself is appended in place of its sub-tree.
SubOfSame(f) == f

\* subber.Sub(dir) of a layer: the same filesystem, re-rooted once more.
SubOf(f) == FsId(f.id, f.root + 1)

\* Faulty variant of SubComposite: the directory mode is not handed on.
SubCompositeFirstWins(cfs, subFSList) ==
    newCompositeFS(cfs.bestEffort, FALSE, subFSList)

\* `return newCompositeFS(cfs.bestEffort, cfs.mergeDirs, subFSList...), nil`
SubComposite(cfs, subFSList) ==
    newCompositeFS(cfs.bestEffort, cfs.mergeDirs, subFSList)

\* The loop of CompositeFS.Sub from layer i on.
RECURSIVE SubFrom(_, _, _, _, _, _, _)
SubFrom(cfs, fs, i, subFSList, errs, allNotExist, calls) ==
    IF i > Len(fs)
    THEN IF Len(subFSList) = 0
         THEN Fail(notFoundError(errs, allNotExist), calls)
         ELSE Return([NoValue EXCEPT !.kind = "fs",
                         !.sub = <<SubComposite(cfs, subFSList)>>],
                     NoError, calls)
    ELSE IF fs[i].hasSub
    THEN LET err == fs[i].sub
             made == Append(calls, On(i, "Sub"))
         IN  IF err = "ok"
             THEN SubFrom(cfs, fs, i + 1,
                          Append(subFSList, SubOf(cfs.filesystems[i])),
                          errs, FALSE, made)
             ELSE IF IsNotExist(err)
             THEN SubFrom(cfs, fs, i + 1, subFSList,
                          Append(errs, Wrapped(i, err)), allNotExist, made)
             ELSE IF ShortCircuit(cfs)
             THEN Fail(WrappedError(i, err), made)
             ELSE SubFrom(cfs, fs, i + 1, subFSList,
                          Append(errs, Wrapped(i, err)), FALSE, made)
    ELSE SubFrom(cfs, fs, i + 1, subFSList, errs, allNotExist, calls)

CompositeSub(cfs, fs) == SubFrom(cfs, fs, 1, <<>>, <<>>, TRUE, <<>>)

\* ----------------------------------------------------------- overlayDirFile
\* The largest int, for an int of IntBits bits.
MaxInt == 2 ^ (IntBits - 1) - 1

\* int addition wraps around.
IntAdd(a, b) ==
    LET sum == a + b
    IN  IF sum > MaxInt THEN sum - 2 ^ IntBits ELSE sum

\* `&overlayDirFile{name: name, info: ..., entries: entries}`: the entries
\* and the cursor, which starts as the zero value.
NewDirFile(value) == [entries |-> value.entries, pos |-> 0]

\* What ReadDir(n) hands back, and the handle after it.  err is "nil",
\* "EOF" (io.EOF) or "panic" (slice bounds out of range).
ReadResult(f, entries, err) == [f |-> f, entries |-> entries, err |-> err]

\* Faulty variant of FileReadDir: an unbounded read starts over at entry 0.
FileReadDirRewinds(f, n) ==
    IF n <= 0
    THEN ReadResult([f EXCEPT !.pos = Len(f.entries)], f.entries, "nil")
    ELSE IF f.pos >= Len(f.entries)
    THEN ReadResult(f, <<>>, "EOF")
    ELSE LET end == IF f.pos + n > Len(f.entries) THEN Len(f.entries)
                    ELSE f.pos + n
         IN  ReadResult([f EXCEPT !.pos = end],
                        SubSeq(f.entries, f.pos + 1, end),
                        IF end >= Len(f.entries) THEN "EOF" ELSE "nil")

\* overlayDirFile.ReadDir(n).  f.entries[a:b] is SubSeq(f.entries, a + 1, b).
FileReadDir(f, n) ==
    IF n <= 0
    THEN IF f.pos >= Len(f.entries)
         THEN ReadResult(f, <<>>, "nil")
         ELSE ReadResult([f EXCEPT !.pos = Len(f.entries)],
                         SubSeq(f.entries, f.pos + 1, Len(f.entries)), "nil")
    ELSE IF f.pos >= Len(f.entries)
    THEN ReadResult(f, <<>>, "EOF")
    ELSE LET sum == IntAdd(f.pos, n)
             end == IF sum > Len(f.entries) THEN Len(f.entries) ELSE sum
         IN  IF end < f.pos
             THEN ReadResult(f, <<>>, "panic")
             ELSE ReadResult([f EXCEPT !.pos = end],
                             SubSeq(f.entries, f.pos + 1, end),
                             IF end >= Len(f.entries) THEN "EOF" ELSE "nil")

\* ------------------------------------------------------------------ actions
Envs(cfs, providers) == [1..Len(cfs.filesystems) -> providers]

Called(op, c, fs, res) == [op |-> op, cfs |-> c, fs |-> fs, res |-> res]

NoCall == Called("none", 0, <<>>, Fail(NoError, <<>>))

Idle == call.op = "none"

\* The caller works on the composite it obtained last.
Latest == Len(composites)

\* The last ReadDir call on a handle (h = 0: none yet), and for each handle
\* the entries its reads have returned so far, one after the other.
Read(h, n, entries, err, got) ==
    [h |-> h, n |-> n, entries |-> entries, err |-> err, got |-> got]

NoRead == Read(0, 0, <<>>, "nil", <<>>)

Init ==
    /\ \E n \in 0..MaxLayers :
         \E cfs \in {NewCompositeFS(n), NewCompositeFSBestEffort(n),
                     NewOverlayFS(n)} :
            composites = <<cfs>>
    /\ call = NoCall
    /\ handles = <<>>
    /\ reads = NoRead
    /\ world = <<>>
    /\ procs = <<>>

Open ==
    /\ Idle
    /\ \E c \in {Latest} :
         \E fs \in Envs(composites[c],
                        IF composites[c].mergeDirs THEN OverlayFS ELSE OpenFS) :
            call' = Called("Open", c, fs, CompositeOpen(composites[c], fs))
    /\ UNCHANGED <<composites, handles, reads, world, procs>>

ReadDir ==
    /\ Idle
    /\ \E c \in {Latest} :
         \E fs \in Envs(composites[c], ListFS) :
            call' = Called("ReadDir", c, fs, CompositeReadDir(composites[c], fs))
    /\ UNCHANGED <<composites, handles, reads, world, procs>>

Stat ==
    /\ Idle
    /\ \E c \in {Latest} :
         \E fs \in Envs(composites[c], StatFS) :
            call' = Called("Stat", c, fs, CompositeStat(composites[c], fs))
    /\ UNCHANGED <<composites, handles, reads, world, procs>>

ReadFile ==
    /\ Idle
    /\ \E c \in {Latest} :
         \E fs \in Envs(composites[c], ReadFileFS) :
            call' = Called("ReadFile", c, fs,
                           CompositeReadFile(composites[c], fs))
    /\ UNCHANGED <<composites, handles, reads, world, procs>>

\* Sub hands a new composite to the caller; the model keeps the ones it was
\* derived from next to it.
Sub ==
    /\ Idle
    /\ Len(composites) < MaxComposites
    /\ \E c \in {Latest} :
         \E fs \in Envs(composites[c], SubFS) :
            LET res == CompositeSub(composites[c], fs)
            IN  /\ call' = Called("Sub", c, fs, res)
                /\ composites' = composites \o res.value.sub
                /\ UNCHANGED <<handles, reads, world, procs>>

\* The caller is done with the returned value.
Done ==
    /\ ~Idle
    /\ call' = NoCall
    /\ UNCHANGED <<composites, handles, reads, world, procs>>

Next == Open \/ ReadDir \/ Stat \/ ReadFile \/ Sub \/ Done

Spec == Init /\ [][Next]_vars

\* ------------------------------------------------- reading overlay handles
\* The counts a caller passes to ReadDir.
Counts == {-1, 0} \cup 1..MaxCount \cup {MaxInt}

\* An overlay composite whose Open has returned a first overlayDirFile.
DirInit ==
    /\ \E n \in 1..MaxLayers :
         \E fs \in Envs(NewOverlayFS(n), OverlayFS) :
            LET res == openOverlay(NewOverlayFS(n), fs)
            IN  /\ res.err.isNil /\ res.value.kind = "overlay"
                /\ composites = <<NewOverlayFS(n)>>
                /\ handles = <<NewDirFile(res.value)>>
    /\ call = NoCall
    /\ reads = [NoRead EXCEPT !.got = <<<<>>>>]
    /\ world = <<>>
    /\ procs = <<>>

\* Open returns a further handle for the same path: the same entries, its
\* own cursor.
OpenAgain ==
    /\ Len(handles) < MaxHandles
    /\ handles' = Append(handles, NewDirFile(handles[1]))
    /\ reads' = [reads EXCEPT !.got = Append(@, <<>>)]
    /\ UNCHANGED <<composites, call, world, procs>>

\* ReadDir(n) on handle h.
HandleReadDir ==
    \E h \in 1..Len(handles) :
       \E n \in Counts :
          LET r == FileReadDir(handles[h], n)
          IN  /\ handles' = [handles EXCEPT ![h] = r.f]
              /\ reads' = Read(h, n, r.entries, r.err,
                               [reads.got EXCEPT ![h] = @ \o r.entries])
              /\ UNCHANGED <<composites, call, world, procs>>

DirNext == OpenAgain \/ HandleReadDir

DirSpec == DirInit /\ [][DirNext]_vars

\* ------------------------------------------------------- concurrent calls
\* Providers that answer every method at the one path the calls ask for:
\* without the path, failing, holding a regular file, holding a directory
\* behind native methods, or holding a directory behind Open alone.
WorldFS ==
    {[BareFS EXCEPT !.open = "notexist"],
     [BareFS EXCEPT !.open = "generic"],
     [BareFS EXCEPT !.open = "file", !.data = 1,
                    !.hasStat = TRUE, !.stat = "ok",
                    !.hasReadFile = TRUE, !.readFile = "ok",
                    !.hasReadDir = TRUE, !.readDir = "generic",
                    !.hasSub = TRUE, !.sub = "generic"],
     [BareFS EXCEPT !.open = "dir", !.entries = <<1>>,
                    !.hasStat = TRUE, !.stat = "ok",
                    !.hasReadFile = TRUE, !.readFile = "generic",
                    !.hasReadDir = TRUE, !.readDir = "ok",
                    !.hasSub = TRUE, !.sub = "ok"],
     [BareFS EXCEPT !.open = "dir", !.entries = <<MaxNames, 1>>,
                    !.readAll = "generic",
                    !.isReadDirFile = TRUE, !.fileReadDir = "ok"]}

\* Faulty variant of AfterCall: Sub filters the layer list in place
\* (`subFSList := cfs.filesystems[:0]`).
AfterCallSubInPlace(cfs, res) ==
    IF res.value.kind = "fs"
    THEN [cfs EXCEPT !.filesystems = res.value.sub[1].filesystems]
    ELSE cfs

\* The composite after one of its methods ran: no method assigns to
\* cfs.filesystems, cfs.bestEffort or cfs.mergeDirs.
AfterCall(cfs, res) == cfs

\* `for i, fsys := range cfs.filesystems`: the providers the layer list of
\* cfs holds, in its order.
Providers(cfs) ==
    [k \in 1..Len(cfs.filesystems) |-> world[cfs.filesystems[k].id]]

\* What the method op returns on cfs.
Run(op, cfs) ==
    LET fs == Providers(cfs)
    IN
    CASE op = "Open" -> CompositeOpen(cfs, fs)
      [] op = "ReadDir" -> CompositeReadDir(cfs, fs)
      [] op = "Stat" -> CompositeStat(cfs, fs)
      [] op = "ReadFile" -> CompositeReadFile(cfs, fs)
      [] op = "Sub" -> CompositeSub(cfs, fs)

\* A goroutine: at rest, or in a call of op that has not yet touched the
\* composite ("called"), or in one that has and holds its result res
\* ("ran").  alone is what the call returns on the composite as it was
\* when the call was made.
Proc(pc, op, alone, res) == [pc |-> pc, op |-> op, alone |-> alone, res |-> res]

AtRest == Proc("rest", "none", Fail(NoError, <<>>), Fail(NoError, <<>>))

ConcInit ==
    /\ \E n \in 0..MaxLayers :
         /\ \E cfs \in {NewCompositeFS(n), NewCompositeFSBestEffort(n),
                        NewOverlayFS(n)} :
               composites = <<cfs>>
         /\ world \in [1..n -> WorldFS]
    /\ procs = [p \in 1..MaxProcs |-> AtRest]
    /\ call = NoCall
    /\ handles = <<>>
    /\ reads = NoRead

\* Goroutine p calls a method of the composite.
Invoke(p) ==
    /\ procs[p].pc = "rest"
    /\ \E op \in {"Open", "ReadDir", "Stat", "ReadFile", "Sub"} :
          procs' = [procs EXCEPT
                       ![p] = Proc("called", op, Run(op, composites[1]),
                                   Fail(NoError, <<>>))]
    /\ UNCHANGED <<composites, call, handles, reads, world>>

\* The method runs: it reads the composite and the providers.
Execute(p) ==
    /\ procs[p].pc = "called"
    /\ LET res == Run(procs[p].op, composites[1])
       IN  /\ procs' = [procs EXCEPT ![p].pc = "ran", ![p].res = res]
           /\ composites' = [composites EXCEPT ![1] = AfterCall(@, res)]
    /\ UNCHANGED <<call, handles, reads, world>>

\* The call returns to goroutine p.
Finish(p) ==
    /\ procs[p].pc = "ran"
    /\ procs' = [procs EXCEPT ![p] = AtRest]
    /\ UNCHANGED <<composites, call, handles, reads, world>>

ConcNext == \E p \in 1..MaxProcs : Invoke(p) \/ Execute(p) \/ Finish(p)

ConcSpec == ConcInit /\ [][ConcNext]_vars

\* =================================================================== claims
\* The call the state records.
Cfs == composites[call.cfs]

Env == call.fs

Res == call.res

Layers == 1..Len(Env)

Methods == {"Open", "ReadDir", "Stat", "ReadFile", "Sub"}

Returned == call.op \in Methods

Succeeded == Returned /\ Res.err.isNil

FailedCall == Returned /\ ~Res.err.isNil

\* The layers the method called.
Consulted == {Res.calls[k].layer : k \in 1..Len(Res.calls)}

Lowest(S) == CHOOSE i \in S : \A j \in S : i <= j

\* What layer p alone answers to the method: "ok", the class of its failure,
\* or "unsupported" when Sub finds no Sub method.
OverlayAnswer(p) ==
    IF p.open \notin Opened THEN p.open
    ELSE IF p.fstat # "ok" THEN p.fstat
    ELSE IF p.open = "dir" THEN ReadDirHelper(p).err
    ELSE "ok"

AnswerTo(op, mergeDirs, p) ==
    CASE op = "Open" ->
            IF mergeDirs THEN OverlayAnswer(p)
            ELSE IF p.open \in Opened THEN "ok" ELSE p.open
      [] op = "Stat" ->
            IF p.hasStat THEN p.stat
            ELSE IF p.open \in Opened THEN p.fstat ELSE p.open
      [] op = "ReadFile" ->
            IF p.hasReadFile THEN p.readFile
            ELSE IF p.open \in Opened THEN p.readAll ELSE p.open
      [] op = "ReadDir" -> ReadDirHelper(p).err
      [] op = "Sub" -> IF p.hasSub THEN p.sub ELSE "unsupported"
      [] OTHER -> "unsupported"

Answer(i) == AnswerTo(call.op, Cfs.mergeDirs, Env[i])

Has == {i \in Layers : Answer(i) = "ok"}

\* The value layer i alone returns for Open, Stat or ReadFile.
OwnValue(i) ==
    CASE call.op = "Open" -> Handle(i, Env[i])
      [] call.op = "Stat" -> Content("info", i, Env[i])
      [] call.op = "ReadFile" -> Content("bytes", i, Env[i])
      [] OTHER -> NoValue

Lookups == {"Open", "Stat", "ReadFile"}

\* C1: without directory merging, a successful Open, Stat or ReadFile returns
\* the value of the lowest layer that has the path, and a path that layer i
\* has and every layer before i reports as not found resolves to layer i.
C1_FirstWins ==
    (call.op \in Lookups /\ ~Cfs.mergeDirs) =>
        /\ Succeeded => (Has # {} /\ Res.value = OwnValue(Lowest(Has)))
        /\ \A i \in Has :
              (\A j \in 1..(i - 1) : Answer(j) = "notexist")
                 => (Succeeded /\ Res.value = OwnValue(i))

\* Two layers hold different content at the path and the first one is returned.
C1_Witness ==
    /\ call.op = "ReadFile" /\ ~Cfs.mergeDirs /\ Succeeded
    /\ \E i, j \in Has : i < j /\ Env[i].data # Env[j].data
                               /\ Res.value.layer = i /\ Res.value.data = Env[i].data

\* The layer reports the path as not found to whatever the method asks it.
Absent(i) ==
    IF call.op = "Sub" /\ ~Env[i].hasSub THEN Env[i].open = "notexist"
    ELSE Answer(i) = "notexist"

\* C2: when every layer reports the path as not found, and so whenever there
\* is no layer, each method fails with an error that matches fs.ErrNotExist.
C2_AbsentIsNotFound ==
    (Returned /\ \A i \in Layers : Absent(i)) => (FailedCall /\ Res.err.notExist)

\* Two layers, both without the directory, and an overlay Open.
C2_Witness ==
    /\ call.op = "Open" /\ Cfs.mergeDirs /\ Len(Env) >= 2
    /\ \A i \in Layers : Absent(i)
    /\ FailedCall /\ Res.err.notExist

\* The path is in layer i: the layer opens it and nothing the layer is asked
\* reports it as not found.
Present(i) ==
    LET p == Env[i]
    IN  /\ p.open \in Opened
        /\ p.fstat # "notexist" /\ p.readAll # "notexist"
        /\ p.isReadDirFile => p.fileReadDir # "notexist"
        /\ p.hasStat => p.stat # "notexist"
        /\ p.hasReadFile => p.readFile # "notexist"
        /\ p.hasReadDir => p.readDir # "notexist"
        /\ p.hasSub => p.sub # "notexist"

\* C3: when the path is in at least one layer, a failed call's error does not
\* match fs.ErrNotExist.
C3_PresentNeverNotFound ==
    (FailedCall /\ \E i \in Layers : Present(i)) => ~Res.err.notExist

\* C4: a failed call's error matches fs.ErrNotExist exactly when every layer
\* the method called failed with a not-found error.
C4_NotFoundIffAllNotFound ==
    FailedCall =>
        (Res.err.notExist <=> \A i \in Consulted : Answer(i) = "notexist")

\* Best-effort: one layer not found, another broken, the result generic.
C4_Witness ==
    /\ FailedCall /\ Cfs.bestEffort /\ ~Res.err.notExist
    /\ \E i, j \in Consulted : Answer(i) = "notexist" /\ Answer(j) = "generic"

\* C5: under short-circuit tolerance the first layer that fails with another
\* error than not-found ends the call: no later layer is called, the call
\* fails whatever the other layers hold, and the error is that layer's,
\* wrapped.
C5_ShortCircuitAborts ==
    (Returned /\ ~Cfs.bestEffort) =>
        /\ \A i \in Consulted : Answer(i) = "generic" =>
              /\ FailedCall /\ ~Res.err.notExist
              /\ Res.err.causes = <<Wrapped(i, "generic")>>
              /\ \A c \in Consulted : c <= i
        /\ call.op \in {"ReadDir", "Sub"} =>
              ((\E i \in Layers : Answer(i) = "generic") => FailedCall)

\* ReadDir: the first layer lists the directory, the second is broken.
C5_Witness ==
    /\ call.op = "ReadDir" /\ ~Cfs.bestEffort /\ Len(Env) = 2
    /\ Answer(1) = "ok" /\ Answer(2) = "generic"
    /\ FailedCall /\ Res.err.causes = <<Wrapped(2, "generic")>>

\* The layers the method calls when nothing stops it.
Asked == {i \in Layers : call.op = "Sub" => Env[i].hasSub}

\* C6: under best-effort tolerance no failure ends the call: Open, Stat and
\* ReadFile return the value of the first layer that succeeds, having called
\* every layer before it, and the merging methods call every layer; under
\* either tolerance the layer after a not-found one is called.
C6_BestEffortContinues ==
    Returned =>
        /\ (Cfs.bestEffort /\ call.op \in Lookups /\ Has # {}) =>
              /\ Succeeded /\ Res.value = OwnValue(Lowest(Has))
              /\ Consulted = 1..Lowest(Has)
        /\ (Cfs.bestEffort /\ (call.op \notin Lookups \/ Has = {})) =>
              Consulted = Asked
        /\ \A i \in Consulted : Answer(i) = "notexist" =>
              LET later == {k \in Asked : k > i}
              IN  later # {} => Lowest(later) \in Consulted

\* Best-effort Open: the first layer is broken, the second one opens.
C6_Witness ==
    /\ call.op = "Open" /\ Cfs.bestEffort /\ Len(Env) >= 2
    /\ Answer(1) = "generic" /\ Answer(2) = "ok"
    /\ Succeeded /\ Res.value.layer = 2

\* The names layer i lists.
ListedBy(i) ==
    LET l == ReadDirHelper(Env[i]).entries IN {l[k] : k \in 1..Len(l)}

RECURSIVE Rerooted(_, _, _)
Rerooted(cfs, fs, i) ==
    IF i > Len(fs) THEN <<>>
    ELSE (IF fs[i].hasSub /\ fs[i].sub = "ok"
          THEN <<[id |-> cfs.filesystems[i].id,
                  root |-> cfs.filesystems[i].root + 1]>>
          ELSE <<>>) \o Rerooted(cfs, fs, i + 1)

\* C8: a successful Sub returns a new composite made of the re-rooted layers
\* that support Sub and succeed, in their order; no call changes a composite
\* that exists; every call touches only layers of the composite it is made on.
C8_SubBuildsNewComposite ==
    [][/\ \A k \in 1..Len(composites) :
             Len(composites') >= k /\ composites'[k] = composites[k]
       /\ (call'.op = "Sub" /\ call'.res.err.isNil) =>
             /\ Len(call'.res.value.sub) = 1
             /\ composites' = composites \o call'.res.value.sub
             /\ call'.res.value.sub[1].filesystems =
                   Rerooted(composites[call'.cfs], call'.fs, 1)
       /\ call'.op \in Methods =>
             \A k \in 1..Len(call'.res.calls) :
                call'.res.calls[k].layer
                   \in 1..Len(composites[call'.cfs].filesystems)]_vars

\* Of two layers only the second can be re-rooted at the path.
C8_Witness ==
    /\ call.op = "Sub" /\ Succeeded /\ call.cfs = 1 /\ Len(Env) = 2
    /\ Answer(1) = "notexist" /\ Answer(2) = "ok"
    /\ Len(composites) = 2
    /\ composites[2].filesystems = <<FsId(2, 1)>>
    /\ composites[1].filesystems = RootList(2)

\* C9 as stated: Sub succeeds whenever some layer can be re-rooted.
C9_SubFailsOnlyIfNoneRerooted ==
    (call.op = "Sub" /\ Has # {}) => Succeeded

\* C9, amended: Sub succeeds whenever some layer can be re-rooted, unless the
\* tolerance is short-circuit and a layer's Sub fails with another error than
\* not-found; otherwise it fails.
C9_SubFailsOnlyIfNoneOrAborted ==
    call.op = "Sub" =>
        (Succeeded <=>
            /\ Has # {}
            /\ Cfs.bestEffort \/ \A i \in Layers : Answer(i) # "generic")

\* Best-effort Sub: one layer is re-rooted although another is broken.
C9_Witness ==
    /\ call.op = "Sub" /\ Cfs.bestEffort /\ Succeeded
    /\ \E i, j \in Layers : Answer(i) = "generic" /\ Answer(j) = "ok"

\* Layer i opens the path and its handle says it is a regular file.
OpensFile(i) == Env[i].open = "file" /\ Env[i].fstat = "ok"

\* Layer i opens the path and its handle says it is a directory.
OpensDir(i) == Env[i].open = "dir" /\ Env[i].fstat = "ok"

\* C10: with directory merging, when Open reaches a layer that opens the
\* path as a regular file and no layer before it opened it as a directory,
\* it returns that layer's file and calls no later layer.
C10_OverlayFileFirstWins ==
    (call.op = "Open" /\ Cfs.mergeDirs) =>
        \A i \in Consulted :
           (OpensFile(i) /\ \A j \in 1..(i - 1) : ~OpensDir(j)) =>
               /\ Succeeded /\ Res.value = Handle(i, Env[i])
               /\ \A c \in Consulted : c <= i

\* The first layer has the file, the second a directory of the same name.
C10_Witness ==
    /\ call.op = "Open" /\ Cfs.mergeDirs /\ Len(Env) = 2
    /\ OpensFile(1) /\ OpensDir(2) /\ Answer(2) = "ok"
    /\ Succeeded /\ Res.value.kind = "file" /\ Res.value.layer = 1
    /\ Consulted = {1}

\* C11: with directory merging, once a consulted layer has opened the path
\* as a directory, Open returns no regular file of a later layer, whether
\* or not the directory's entries could be read; a later layer's file is
\* passed over and the layer after it is consulted.
C11_DirMasksFile ==
    (call.op = "Open" /\ Cfs.mergeDirs) =>
        /\ \A j \in Consulted :
              OpensDir(j) => ~(Res.value.kind = "file" /\ Res.value.layer > j)
        /\ \A i \in Consulted :
              (OpensFile(i) /\ \E j \in 1..(i - 1) : OpensDir(j)) =>
                  /\ Res.value.kind # "file"
                  /\ i < Len(Env) => (i + 1) \in Consulted

\* The first layer's directory cannot be read (not found), the second layer
\* has a regular file: the file is not returned and Open fails.
C11_Witness ==
    /\ call.op = "Open" /\ Cfs.mergeDirs /\ Len(Env) = 2
    /\ OpensDir(1) /\ Answer(1) = "notexist" /\ OpensFile(2)
    /\ Consulted = {1, 2} /\ FailedCall /\ ~Res.err.notExist

\* Layer i opens the path as a directory and its entries can be read.
Readable(i) == OpensDir(i) /\ ReadDirHelper(Env[i]).err = "ok"

\* The entries of layer i, in the order the layer lists them.
LayerEntries(i) ==
    [k \in 1..Len(Env[i].entries) |-> Entry(i, Env[i].entries[k])]

\* The entries of the readable layers up to n, layer after layer.
RECURSIVE Concatenated(_)
Concatenated(n) ==
    IF n = 0 THEN <<>>
    ELSE Concatenated(n - 1) \o (IF Readable(n) THEN LayerEntries(n) ELSE <<>>)

\* The first k elements of s without those whose name an earlier one has.
RECURSIVE FirstOfName(_, _)
FirstOfName(s, k) ==
    IF k = 0 THEN <<>>
    ELSE IF \E j \in 1..(k - 1) : s[j].name = s[k].name
    THEN FirstOfName(s, k - 1)
    ELSE Append(FirstOfName(s, k - 1), s[k])

\* No layer ends the scan early: none fails with another error than
\* not-found under short-circuit tolerance, and none has a regular file
\* before the first directory.
ScanCompletes ==
    \A i \in Layers :
        /\ Answer(i) = "generic" => Cfs.bestEffort
        /\ OpensFile(i) => \E j \in 1..(i - 1) : OpensDir(j)

\* C12: with directory merging, an Open whose scan is not ended early and
\* that finds a directory with readable entries in some layer returns an
\* overlay handle, and the entry sequence of a returned overlay handle is
\* the concatenation, in layer order and within-layer order, of the readable
\* layers' entries without the entries whose name an earlier entry has;
\* every layer was consulted.
C12_OverlayEntriesConcatenated ==
    (call.op = "Open" /\ Cfs.mergeDirs) =>
        /\ ((\E i \in Layers : Readable(i)) /\ ScanCompletes) =>
              Succeeded /\ Res.value.kind = "overlay"
        /\ Res.value.kind = "overlay" =>
              /\ \E i \in Layers : Readable(i)
              /\ Consulted = Layers
              /\ Res.value.entries =
                    LET all == Concatenated(Len(Env))
                    IN  FirstOfName(all, Len(all))

\* Two readable directories that share a name: the second layer adds only
\* its other name, after the first layer's entries.
C12_Witness ==
    /\ call.op = "Open" /\ Cfs.mergeDirs /\ Len(Env) = 2
    /\ Readable(1) /\ Readable(2)
    /\ Len(Env[1].entries) = 1 /\ Len(Env[2].entries) = 2
    /\ Env[2].entries[1] = Env[1].entries[1]
    /\ Succeeded /\ Res.value.kind = "overlay"
    /\ Res.value.entries = <<Entry(1, Env[1].entries[1]),
                             Entry(2, Env[2].entries[2])>>

\* The failures of the consulted layers up to n, in layer order.
RECURSIVE FailuresUpTo(_)
FailuresUpTo(n) ==
    IF n = 0 THEN <<>>
    ELSE IF n \in Consulted /\ Answer(n) \in Failure
    THEN Append(FailuresUpTo(n - 1), Wrapped(n, Answer(n)))
    ELSE FailuresUpTo(n - 1)

\* C13: with directory merging, when a consulted layer opens the path as a
\* directory and the entries of no consulted layer can be read, Open fails,
\* returning no value, with an error that carries the failure of every
\* consulted layer.
C13_UnreadableDirFails ==
    (/\ call.op = "Open" /\ Cfs.mergeDirs
     /\ \E i \in Consulted : OpensDir(i)
     /\ \A i \in Consulted : ~Readable(i)) =>
        /\ FailedCall /\ Res.value = NoValue
        /\ Res.err.causes = FailuresUpTo(Len(Env))

\* C15: the error of a failed call carries the failures of all the layers
\* the call consulted, one for each, in layer order.
C15_AllCausesCarried ==
    FailedCall => Res.err.causes = FailuresUpTo(Len(Env))

\* C17: the calls of one operation go through the layers in increasing
\* order without skipping a layer the operation asks; a layer is called a
\* second time only by Open with directory merging, to read the entries of
\* the directory it has just opened, and never after a call on it failed.
C17_EachLayerOnce ==
    Returned =>
        LET c == Res.calls
        IN  /\ \A k \in 1..(Len(c) - 1) :
                  \/ c[k].layer < c[k + 1].layer
                  \/ /\ c[k].layer = c[k + 1].layer
                     /\ call.op = "Open" /\ Cfs.mergeDirs
                     /\ c[k].method = "Open" /\ OpensDir(c[k].layer)
            /\ \A k \in 1..(Len(c) - 2) : c[k].layer < c[k + 2].layer
            /\ \A i \in Consulted : \A j \in Asked : j < i => j \in Consulted

\* Open with directory merging on two directories: each layer is opened
\* and then read, the first before the second.
C17_Witness ==
    /\ call.op = "Open" /\ Cfs.mergeDirs /\ Len(Env) = 2
    /\ Readable(1) /\ Readable(2) /\ ~Env[1].hasReadDir /\ Env[2].hasReadDir
    /\ Res.calls = <<On(1, "Open"), On(1, "Open"),
                     On(2, "Open"), On(2, "ReadDir")>>

\* C18: without directory merging, Open never returns an overlay handle nor
\* any entries; when several layers open the path as a directory, it returns
\* the handle of the first layer that opens the path.
C18_FirstWinsDirHandle ==
    (call.op = "Open" /\ ~Cfs.mergeDirs) =>
        /\ Res.value.kind # "overlay"
        /\ Res.value.entries = <<>> /\ Res.value.listing = {}
        /\ \A i \in Layers :
              (/\ Env[i].open = "dir"
               /\ \A j \in 1..(i - 1) : Env[j].open = "notexist") =>
                  Succeeded /\ Res.value = Handle(i, Env[i])

\* Both layers have the directory: the handle is the first layer's own.
C18_Witness ==
    /\ call.op = "Open" /\ ~Cfs.mergeDirs /\ Len(Env) = 2
    /\ Env[1].open = "dir" /\ Env[2].open = "dir"
    /\ Succeeded /\ Res.value.kind = "dir" /\ Res.value.layer = 1

\* C20: every composite that a chain of Sub calls derived has the
\* tolerance flag and the directory-mode flag of the composite the chain
\* started from, and the composite a Sub call returns has the flags of the
\* composite it was called on.
C20_SubKeepsFlags ==
    /\ \A c \in 1..Len(composites) :
          /\ composites[c].bestEffort = composites[1].bestEffort
          /\ composites[c].mergeDirs = composites[1].mergeDirs
    /\ (call.op = "Sub" /\ Succeeded) =>
          /\ Res.value.sub[1].bestEffort = Cfs.bestEffort
          /\ Res.value.sub[1].mergeDirs = Cfs.mergeDirs

\* A Sub of a Sub of an overlay composite is an overlay composite.
C20_Witness ==
    /\ call.op = "Sub" /\ Succeeded /\ call.cfs = 2 /\ Len(composites) = 3
    /\ composites[1].mergeDirs /\ composites[3].mergeDirs
    /\ ~composites[3].bestEffort

\* A step of DirSpec that is a ReadDir call on handle h.
ReadOn(h) ==
    /\ Len(handles') = Len(handles)
    /\ h \in 1..Len(handles)
    /\ reads'.h = h

\* C14: a ReadDir(n) with n <= 0 returns all the entries from the cursor on
\* at once, with no error, and the read after it on the same handle returns
\* no entry (and io.EOF when its n > 0); a ReadDir(n) with n > 0 returns at
\* most n entries, the next ones from the cursor on, and returns io.EOF
\* exactly when it leaves the cursor at the end of the entries.
C14_ReadDirCounts ==
    [][\A h \in 1..Len(handles) :
          ReadOn(h) =>
             LET f == handles[h]
                 n == reads'.n
                 out == reads'.entries
                 err == reads'.err
                 rest == SubSeq(f.entries, f.pos + 1, Len(f.entries))
             IN  /\ n <= 0 =>
                       /\ out = rest /\ err = "nil"
                       /\ handles'[h].pos = Len(f.entries)
                 /\ n > 0 =>
                       /\ Len(out) <= n
                       /\ out = SubSeq(rest, 1, Len(out))
                       /\ err \in {"nil", "EOF"}
                       /\ err = "EOF" <=> handles'[h].pos = Len(f.entries)
                 /\ (reads.h = h /\ reads.n <= 0) =>
                       /\ out = <<>>
                       /\ err = IF n > 0 THEN "EOF" ELSE "nil"]_vars

\* C19: the cursor of every handle is between 0 and the number of its
\* entries, and what the reads on a handle have returned so far, one after
\* the other, is the entries before its cursor (none before the first read,
\* the cursor being 0); no step moves a cursor back or changes the entries,
\* and a read on one handle leaves every other handle as it is.
C19_CursorAndPrefix ==
    /\ [](\A h \in 1..Len(handles) :
            /\ handles[h].pos \in 0..Len(handles[h].entries)
            /\ reads.got[h] = SubSeq(handles[h].entries, 1, handles[h].pos))
    /\ [][\A h \in 1..Len(handles) :
            /\ handles'[h].pos >= handles[h].pos
            /\ handles'[h].entries = handles[h].entries
            /\ \A g \in 1..Len(handles) :
                  (ReadOn(g) /\ g # h) => handles'[h] = handles[h]]_vars

\* Two handles of a directory of two entries: the first read one entry,
\* then the second was read to its end, in two reads.
C19_Witness ==
    /\ Len(handles) = 2 /\ Len(handles[1].entries) = 2
    /\ handles[1].pos = 1 /\ handles[2].pos = 2
    /\ reads.h = 2 /\ reads.n = 1 /\ Len(reads.entries) = 1
    /\ reads.got[2] = handles[2].entries

OutcomeOf(res) ==
    [isNil |-> res.err.isNil, notExist |-> res.err.notExist,
     causes |-> res.err.causes, layer |-> res.value.layer,
     data |-> res.value.data]

\* Layer i with the method of the call provided natively, answering what
\* layer i answers in the call.
NativeTwin(i) ==
    IF call.op = "Stat"
    THEN [BareFS EXCEPT !.hasStat = TRUE, !.stat = Answer(i),
                        !.data = Env[i].data]
    ELSE [BareFS EXCEPT !.hasReadFile = TRUE, !.readFile = Answer(i),
                        !.data = Env[i].data]

\* Layer i with Open alone, its Open (and the stat or the read of the
\* handle) answering what layer i answers in the call.
OpenTwin(i) ==
    IF Answer(i) = "ok"
    THEN [BareFS EXCEPT !.open = "file", !.data = Env[i].data]
    ELSE [BareFS EXCEPT !.open = Answer(i)]

\* The method of the call on other providers.
Again(fs) ==
    IF call.op = "Stat" THEN CompositeStat(Cfs, fs)
    ELSE CompositeReadFile(Cfs, fs)

\* C21: a Stat or ReadFile call has the outcome (success or failure, error
\* classification and causes, layer and content of the value) that it has
\* when every layer provides the method natively with the same answer, when
\* every layer is served through Open with the same answer, and that Open
\* has on layers whose Open gives that answer.
C21_NativeAndFallbackAgree ==
    call.op \in {"Stat", "ReadFile"} =>
        /\ OutcomeOf(Res) = OutcomeOf(Again([i \in Layers |-> NativeTwin(i)]))
        /\ OutcomeOf(Res) = OutcomeOf(Again([i \in Layers |-> OpenTwin(i)]))
        /\ OutcomeOf(Res) =
              OutcomeOf(CompositeOpen(Cfs, [i \in Layers |-> OpenTwin(i)]))

\* Stat over a layer without Stat whose Open finds nothing and a layer with
\* a native Stat: the second layer's info is returned.
C21_Witness ==
    /\ call.op = "Stat" /\ Len(Env) = 2
    /\ ~Env[1].hasStat /\ Answer(1) = "notexist"
    /\ Env[2].hasStat /\ Answer(2) = "ok"
    /\ Succeeded /\ Res.value.layer = 2
    /\ Res.calls = <<On(1, "Open"), On(2, "Stat")>>

====
